---- MODULE Spec2Model ----
(***************************************************************************)
(* Model of pybricks_ble_scan.py: the BLE capture handler (bt_irq), the    *)
(* bounded hand-off queue, the decode pipeline (find_local_name,           *)
(* find_mfr_offset, decode_value, parse_pybricks), the hub registry, the   *)
(* pending-name cache, the dedup cache and the processing loop.            *)
(*                                                                         *)
(* Conventions.  Python None is <<>> and a present value x is <<x>>.       *)
(* Byte strings are sequences of 0..255, read with the source's 0-based    *)
(* indices through At and Slice.  Python str values are TLA+ strings.      *)
(* bt_irq runs between two steps of the main thread; the main thread's     *)
(* steps are the loop test with the processed counter, the popleft, the    *)
(* rest of the loop body, and the tail of the main loop.                   *)
(*                                                                         *)
(* Four specifications share the state.  Spec is a run shorter than the    *)
(* watchdog time-out and the preventive threshold: the tail of the main    *)
(* loop finds nothing to do.  SupSpec is the main loop with the scan       *)
(* supervisor, the clock and the radio's ScanEnded events.  FnSpec calls   *)
(* the record walkers, decode_value, parse_pybricks and bt_irq on data     *)
(* drawn in its initial state.  RegSpec calls hub_tag_color for a long     *)
(* run of addresses.                                                       *)
(***************************************************************************)
EXTENDS Integers, Sequences, FiniteSets, TLC

VARIABLES
    queue,            \* _queue: deque of (addr, payload, rssi, adv_type)
    hub_registry,     \* _hub_registry: addr -> (tag, color, ema, name, addr_s)
    name_cache,       \* _name_cache: addr -> name
    hub_counter,      \* _hub_counter[0]
    last_value,       \* _last_value: key -> decoded text
    irq_count,        \* _irq_count[0]
    queue_count,      \* _queue_count[0]
    print_count,      \* _print_count[0]
    processed_count,  \* _processed_count[0]
    scan_is_running,  \* scan_is_running
    scan_starts,      \* gap_scan(duration, interval, window, active) commands issued
    pc,               \* position of the main thread
    cur,              \* locals of process_queue: the tuple taken by popleft
    line,             \* what the last pass of the process_queue body printed
    air,              \* the advertisement reports the radio can deliver
    irq_event,        \* history: the last call of bt_irq and where it interrupted
    enqueued,         \* history: every tuple appended to the queue, in order
    discarded,        \* history: how many appends found the queue full
    last_seen,        \* history: (addr, channel) -> text of the last parsed packet
    intentional_restart, \* _intentional_restart
    last_irq_check,   \* _last_irq_check
    last_irq_count,   \* _last_irq_count[0]
    loop_now,         \* now, as read in this iteration of the main loop
    clock,            \* time.ticks_ms(), in units of one tick
    scanning,         \* the radio: a scan is active
    done_pending,     \* the radio: ScanEnded events not yet delivered, by cause
    ext_stops,        \* the radio: scans it has ended by itself
    hist,             \* history of the supervisor (see SupInit)
    probe,            \* FnSpec: the payload under test and how it was built
    ret               \* FnSpec: what the functions returned

vars == <<queue, hub_registry, name_cache, hub_counter, last_value, irq_count,
          queue_count, print_count, processed_count, scan_is_running,
          scan_starts, pc, cur, line, air, irq_event, enqueued, discarded, last_seen,
          intentional_restart, last_irq_check, last_irq_count, loop_now, clock,
          scanning, done_pending, ext_stops, hist, probe, ret>>

\* What only SupSpec changes, and what only FnSpec changes.
sup_vars == <<last_irq_check, last_irq_count, loop_now, clock, done_pending,
              ext_stops, hist>>
fn_vars == <<probe, ret>>

-----------------------------------------------------------------------------
(* Bounds of the model *)

QueueCap == 2        \* stands for the deque's maxlen (180 in the source)
MaxEvents == 3       \* BLE events delivered in one run
MaxScanStarts == 2   \* gap_scan(start) commands counted in scan_starts

\* SupSpec
PREVENTIVE_RESTART_EVENTS == 2  \* stands for 6000 events
WatchdogTicks == 2   \* WATCHDOG_SEC * 1000 ms, in ticks of the clock
MaxSupEvents == 4    \* scan results delivered in one run
MaxTime == 4         \* ticks of the clock in one run
MaxExtStops == 1     \* scans the radio ends by itself in one run
MaxPending == 1      \* ScanEnded events the radio holds back at a time

\* FnSpec
MaxRecords == 2      \* well-formed AD records before the end of a payload

MaxWraps == 3        \* single-object headers in front of an encoded value

\* RegSpec
MaxHubs == 27        \* distinct hub addresses heard in one run

-----------------------------------------------------------------------------
(* Python values *)

None == <<>>
Some(x) == <<x>>
IsNone(o) == o = <<>>
Val(o) == o[1]

At(b, i) == b[i + 1]
Min(a, b) == IF a < b THEN a ELSE b
Slice(b, lo, hi) == SubSeq(b, lo + 1, Min(hi, Len(b)))

-----------------------------------------------------------------------------
(* Configuration and protocol constants *)

SUPPRESS_DUPLICATES == TRUE
AD_TYPE_MFR == 255
NumColors == 10
RSSI_EMA_NUM == 1
RSSI_EMA_DEN == 5

LEN_MASK == 31
PYBRICKS_COMPANY_ID == 919
T_SINGLE == 0
T_TRUE == 32
T_FALSE == 64
T_INT == 96
T_FLOAT == 128
T_STR == 160
T_BYTES == 192

IRQ_SCAN_RESULT == 5
IRQ_SCAN_DONE == 6
ADV_SCAN_RSP == 4

-----------------------------------------------------------------------------
(* Text conversions *)

HexUpper == <<"0","1","2","3","4","5","6","7","8","9","A","B","C","D","E","F">>
HexLower == <<"0","1","2","3","4","5","6","7","8","9","a","b","c","d","e","f">>
Digit == <<"0","1","2","3","4","5","6","7","8","9">>

\* f"{b:02X}"
Hex02X(b) == HexUpper[(b \div 16) + 1] \o HexUpper[(b % 16) + 1]

\* str(n) for a natural number
RECURSIVE NatStr(_)
NatStr(n) == IF n < 10 THEN Digit[n + 1]
             ELSE NatStr(n \div 10) \o Digit[(n % 10) + 1]

\* str(n) for an int
IntStr(n) == IF n < 0 THEN "-" \o NatStr(0 - n) ELSE NatStr(n)

\* bytes.hex()
RECURSIVE BytesHex(_)
BytesHex(b) ==
    IF b = <<>> THEN ""
    ELSE HexLower[(b[1] \div 16) + 1] \o HexLower[(b[1] % 16) + 1]
         \o BytesHex(Tail(b))

\* chr(c) for the letters, the digits, the space and the underscore
Upper == <<"A","B","C","D","E","F","G","H","I","J","K","L","M",
           "N","O","P","Q","R","S","T","U","V","W","X","Y","Z">>
Lower == <<"a","b","c","d","e","f","g","h","i","j","k","l","m",
           "n","o","p","q","r","s","t","u","v","w","x","y","z">>

Chr(c) ==
    CASE c >= 48 /\ c <= 57 -> Digit[c - 47]
      [] c >= 65 /\ c <= 90 -> Upper[c - 64]
      [] c >= 97 /\ c <= 122 -> Lower[c - 96]
      [] c = 32 -> " "
      [] c = 95 -> "_"

\* Number of continuation bytes a UTF-8 lead byte announces, -1 if the byte
\* cannot start a character.
Utf8Follow(b) ==
    IF b < 128 THEN 0
    ELSE IF b >= 194 /\ b <= 223 THEN 1
    ELSE IF b >= 224 /\ b <= 239 THEN 2
    ELSE IF b >= 240 /\ b <= 244 THEN 3
    ELSE -1

IsCont(b) == b >= 128 /\ b <= 191

\* Whether bytes.decode("utf-8") accepts b (otherwise it raises UnicodeError).
RECURSIVE Utf8Valid(_)
Utf8Valid(b) ==
    IF b = <<>> THEN TRUE
    ELSE LET n == Utf8Follow(b[1]) IN
         /\ n >= 0
         /\ Len(b) >= n + 1
         /\ \A k \in 2..(n + 1) : IsCont(b[k])
         /\ Utf8Valid(SubSeq(b, n + 2, Len(b)))

\* The text of a valid byte string made of the characters Chr knows.
RECURSIVE Utf8Text(_)
Utf8Text(b) == IF b = <<>> THEN "" ELSE Chr(b[1]) \o Utf8Text(Tail(b))

\* f"{b:X}": no zero padding
HexX(b) == IF b < 16 THEN HexUpper[b + 1] ELSE Hex02X(b)

RECURSIVE JoinHexXReversed(_)
JoinHexXReversed(b) ==
    IF Len(b) = 1 THEN HexX(b[1])
    ELSE JoinHexXReversed(Tail(b)) \o ":" \o HexX(b[1])

\* An address text without zero padding.
addr_str_unpadded(addr) == JoinHexXReversed(addr)

\* addr_str: the bytes reversed, two upper-case hex digits each, joined by ":"
RECURSIVE JoinHexReversed(_)
JoinHexReversed(b) ==
    IF Len(b) = 1 THEN Hex02X(b[1])
    ELSE JoinHexReversed(Tail(b)) \o ":" \o Hex02X(b[1])

addr_str(addr) == JoinHexReversed(addr)

-----------------------------------------------------------------------------
(* Record walkers *)

\* bytes.decode("utf-8"): the text, or raised when the bytes are not UTF-8
bytes_decode(b) ==
    IF Utf8Valid(b) THEN [raised |-> FALSE, text |-> Utf8Text(b)]
    ELSE [raised |-> TRUE, text |-> ""]

\* The while loop of find_local_name, entered with index i.
RECURSIVE find_local_name_from(_, _)
find_local_name_from(payload, i) ==
    IF i >= Len(payload) THEN None
    ELSE LET length == At(payload, i)
             j == i + 1
         IN IF length = 0 THEN None
            ELSE IF j + length > Len(payload) THEN None
            ELSE IF At(payload, j) \in {8, 9}
                 THEN LET d == bytes_decode(Slice(payload, j + 1, j + length))
                      IN IF d.raised THEN None ELSE Some(d.text)
            ELSE find_local_name_from(payload, j + length)

find_local_name(payload) == find_local_name_from(payload, 0)

\* A walk that accepts a vendor record whose declared length runs past the
\* end of the payload.
RECURSIVE find_mfr_offset_from_lenient(_, _)
find_mfr_offset_from_lenient(payload, i) ==
    IF i >= Len(payload) THEN -1
    ELSE LET length == At(payload, i)
             j == i + 1
         IN IF length = 0 THEN -1
            ELSE IF j + 2 >= Len(payload) THEN -1
            ELSE IF /\ At(payload, j) = AD_TYPE_MFR
                    /\ length >= 3
                    /\ At(payload, j + 1) = 151
                    /\ At(payload, j + 2) = 3
                 THEN j + 1
            ELSE find_mfr_offset_from_lenient(payload, j + length)

\* The while loop of find_mfr_offset, entered with index i.
RECURSIVE find_mfr_offset_from(_, _)
find_mfr_offset_from(payload, i) ==
    IF i >= Len(payload) THEN -1
    ELSE LET length == At(payload, i)
             j == i + 1
         IN IF length = 0 THEN -1
            ELSE IF j + length > Len(payload) THEN -1
            ELSE IF /\ At(payload, j) = AD_TYPE_MFR
                    /\ length >= 3
                    /\ At(payload, j + 1) = 151
                    /\ At(payload, j + 2) = 3
                 THEN j + 1
            ELSE find_mfr_offset_from(payload, j + length)

find_mfr_offset(payload) == find_mfr_offset_from(payload, 0)

\* The indices at which find_local_name subscripts or slices payload, from
\* index i of its while loop on.
RECURSIVE find_local_name_reads(_, _)
find_local_name_reads(payload, i) ==
    IF i >= Len(payload) THEN {}
    ELSE LET length == At(payload, i)
             j == i + 1
         IN {i} \cup
            IF length = 0 THEN {}
            ELSE IF j + length > Len(payload) THEN {}
            ELSE {j} \cup
                 IF At(payload, j) \in {8, 9}
                 THEN (j + 1)..(j + length - 1)
                 ELSE find_local_name_reads(payload, j + length)

\* The indices at which find_mfr_offset subscripts payload, from index i of
\* its while loop on; `and` reads its right operand only if the left holds.
RECURSIVE find_mfr_offset_reads(_, _)
find_mfr_offset_reads(payload, i) ==
    IF i >= Len(payload) THEN {}
    ELSE LET length == At(payload, i)
             j == i + 1
         IN {i} \cup
            IF length = 0 THEN {}
            ELSE IF j + length > Len(payload) THEN {}
            ELSE {j} \cup
                 IF At(payload, j) = AD_TYPE_MFR
                 THEN IF length >= 3
                      THEN {j + 1} \cup
                           IF At(payload, j + 1) = 151
                           THEN {j + 2} \cup
                                IF At(payload, j + 2) = 3 THEN {}
                                ELSE find_mfr_offset_reads(payload, j + length)
                           ELSE find_mfr_offset_reads(payload, j + length)
                      ELSE find_mfr_offset_reads(payload, j + length)
                 ELSE find_mfr_offset_reads(payload, j + length)

-----------------------------------------------------------------------------
(* Value decoder.  A decoder returns [raised, value, size]: the pair the   *)
(* source returns, or raised = TRUE when the source raises an exception.   *)

Ret(value, size) == [raised |-> FALSE, value |-> value, size |-> size]
Raise == [raised |-> TRUE, value |-> None, size |-> 0]

\* 256 ^ n for n in 0..3
Pow256(n) ==
    IF n = 0 THEN 1 ELSE IF n = 1 THEN 256 ELSE IF n = 2 THEN 65536 ELSE 16777216

\* The unsigned little-endian number in data[pos : pos + size]
RECURSIVE UnsignedLE(_, _, _)
UnsignedLE(data, pos, size) ==
    IF size = 0 THEN 0
    ELSE At(data, pos) + 256 * UnsignedLE(data, pos + 1, size - 1)

\* struct.unpack_from("<b" | "<h" | "<i", data, pos): two's complement, the
\* last byte carrying the sign
SignedLE(data, pos, size) ==
    LET top == At(data, pos + size - 1)
    IN UnsignedLE(data, pos, size - 1)
       + Pow256(size - 1) * (IF top >= 128 THEN top - 256 ELSE top)

decode_int(data, pos, length) ==
    IF length \notin {1, 2, 4} THEN Ret(None, 0)
    ELSE IF pos + length > Len(data) THEN Ret(None, 0)
    ELSE Ret(Some([t |-> "int", n |-> SignedLE(data, pos, length)]), length)

decode_float(data, pos) ==
    IF pos + 4 > Len(data) THEN Ret(None, 0)
    ELSE Ret(Some([t |-> "float", raw |-> Slice(data, pos, pos + 4)]), 4)

decode_str(data, pos, length) ==
    IF pos + length > Len(data) THEN Ret(None, 0)
    ELSE LET d == bytes_decode(Slice(data, pos, pos + length))
         IN IF d.raised THEN Raise
            ELSE Ret(Some([t |-> "str", s |-> d.text]), length)

decode_bytes(data, pos, length) ==
    IF pos + length > Len(data) THEN Ret(None, 0)
    ELSE Ret(Some([t |-> "bytes", raw |-> Slice(data, pos, pos + length)]), length)

\* decode_value; the loop over single-object headers is the recursion.
\* A decoder that unwraps one single-object header and no more.
decode_value_one_wrapper(data, pos) ==
    IF pos >= Len(data) THEN Ret(None, 0)
    ELSE LET outer == At(data, pos) - (At(data, pos) % (LEN_MASK + 1))
             q == IF outer = T_SINGLE THEN pos + 1 ELSE pos
         IN IF q >= Len(data) THEN Ret(None, 0)
            ELSE LET header == At(data, q)
                     length == header % (LEN_MASK + 1)
                     typ == header - length
                     p == q + 1
                 IN IF typ = T_TRUE THEN Ret(Some([t |-> "bool", b |-> TRUE]), 0)
                    ELSE IF typ = T_FALSE THEN Ret(Some([t |-> "bool", b |-> FALSE]), 0)
                    ELSE IF typ = T_INT THEN decode_int(data, p, length)
                    ELSE IF typ = T_FLOAT THEN decode_float(data, p)
                    ELSE IF typ = T_STR THEN decode_str(data, p, length)
                    ELSE IF typ = T_BYTES THEN decode_bytes(data, p, length)
                    ELSE Ret(None, 0)

RECURSIVE decode_value(_, _)
decode_value(data, pos) ==
    IF pos >= Len(data) THEN Ret(None, 0)
    ELSE LET header == At(data, pos)
             length == header % (LEN_MASK + 1)
             typ == header - length
             p == pos + 1
         IN IF typ = T_SINGLE THEN decode_value(data, p)
            ELSE IF typ = T_TRUE THEN Ret(Some([t |-> "bool", b |-> TRUE]), 0)
            ELSE IF typ = T_FALSE THEN Ret(Some([t |-> "bool", b |-> FALSE]), 0)
            ELSE IF typ = T_INT THEN decode_int(data, p, length)
            ELSE IF typ = T_FLOAT THEN decode_float(data, p)
            ELSE IF typ = T_STR THEN decode_str(data, p, length)
            ELSE IF typ = T_BYTES THEN decode_bytes(data, p, length)
            ELSE Ret(None, 0)

\* f"{value:.6g}" for the float32 bit patterns the model broadcasts
FloatText(raw) ==
    CASE raw = <<0, 0, 0, 0>> -> "0"
      [] raw = <<0, 0, 128, 63>> -> "1"
      [] raw = <<0, 0, 0, 63>> -> "0.5"

format_decoded(value) ==
    IF IsNone(value) THEN "?"
    ELSE LET v == Val(value)
         IN CASE v.t = "bool" -> IF v.b THEN "True" ELSE "False"
              [] v.t = "float" -> FloatText(v.raw)
              [] v.t = "bytes" -> BytesHex(v.raw)
              [] v.t = "int" -> IntStr(v.n)
              [] v.t = "str" -> v.s

\* A parser that rejects a packet whose value cannot be decoded.
parse_pybricks_strict(payload) ==
    LET offset == find_mfr_offset(payload)
        dv == decode_value(Slice(payload, offset + 3, Len(payload)), 0)
    IN IF offset < 0 \/ offset + 5 > Len(payload)
          \/ UnsignedLE(payload, offset, 2) # PYBRICKS_COMPANY_ID
       THEN [raised |-> FALSE, result |-> None]
       ELSE IF dv.raised THEN [raised |-> TRUE, result |-> None]
       ELSE IF IsNone(dv.value) THEN [raised |-> FALSE, result |-> None]
       ELSE [raised |-> FALSE,
             result |-> Some([channel |-> At(payload, offset + 2),
                              decoded |-> format_decoded(dv.value)])]

\* A parser that reads the channel as a 16-bit number ("<HH").
parse_pybricks_wide_channel(payload) ==
    LET offset == find_mfr_offset(payload)
    IN IF offset < 0 THEN [raised |-> FALSE, result |-> None]
       ELSE IF offset + 5 > Len(payload) THEN [raised |-> FALSE, result |-> None]
       ELSE LET company_id == UnsignedLE(payload, offset, 2)
                channel == UnsignedLE(payload, offset + 2, 2)
                data == Slice(payload, offset + 3, Len(payload))
                dv == decode_value(data, 0)
            IN IF company_id # PYBRICKS_COMPANY_ID
               THEN [raised |-> FALSE, result |-> None]
               ELSE IF dv.raised THEN [raised |-> TRUE, result |-> None]
               ELSE [raised |-> FALSE,
                     result |-> Some([channel |-> channel,
                                      decoded |-> format_decoded(dv.value)])]

\* parse_pybricks returns [raised, result]: result is None or
\* Some([channel, decoded]).
parse_pybricks(payload) ==
    LET offset == find_mfr_offset(payload)
    IN IF offset < 0 THEN [raised |-> FALSE, result |-> None]
       ELSE IF offset + 5 > Len(payload) THEN [raised |-> FALSE, result |-> None]
       ELSE LET company_id == UnsignedLE(payload, offset, 2)
                channel == At(payload, offset + 2)
                data == Slice(payload, offset + 3, Len(payload))
                dv == decode_value(data, 0)
            IN IF company_id # PYBRICKS_COMPANY_ID
               THEN [raised |-> FALSE, result |-> None]
               ELSE IF dv.raised THEN [raised |-> TRUE, result |-> None]
               ELSE [raised |-> FALSE,
                     result |-> Some([channel |-> channel,
                                      decoded |-> format_decoded(dv.value)])]

\* A scan that stops one index early.
contains_pybricks_id_short(mv) ==
    \E i \in 0..(Len(mv) - 3) : At(mv, i) = 151 /\ At(mv, i + 1) = 3

\* A pre-filter that looks only where a leading vendor record has the pair.
contains_pybricks_id_leading(mv) ==
    Len(mv) >= 4 /\ At(mv, 2) = 151 /\ At(mv, 3) = 3

\* contains_pybricks_id: the byte pair 0x97 0x03 somewhere in mv
contains_pybricks_id(mv) ==
    \E i \in 0..(Len(mv) - 2) : At(mv, i) = 151 /\ At(mv, i + 1) = 3

-----------------------------------------------------------------------------
(* Hub registry.  A record is the source's tuple                           *)
(* (tag, color, ema, name, addr_string); color is the index into COLORS,   *)
(* ema is None or Some([num, den]), the exact value num / den.             *)

Put(f, k, v) == [x \in DOMAIN f \cup {k} |-> IF x = k THEN v ELSE f[x]]
Drop(f, k) == [x \in DOMAIN f \ {k} |-> f[x]]

\* A pop that leaves the entry in the dict.
pop_name_keep(cache, addr) == cache

\* _name_cache.pop(addr_bytes): the cache after the call
pop_name(cache, addr) == Drop(cache, addr)

\* A resolve that assigns a fresh slot on every call.
hub_tag_color_always(reg, counter, addr) ==
    [reg |-> Put(reg, addr,
                 [tag |-> Upper[(counter % 26) + 1],
                  color |-> counter % NumColors,
                  ema |-> None,
                  name |-> None,
                  addr_s |-> addr_str(addr)]),
     counter |-> counter + 1]

\* A resolve that takes the color slot from the letter's index.
hub_tag_color_by_letter(reg, counter, addr) ==
    IF addr \notin DOMAIN reg
    THEN [reg |-> Put(reg, addr,
                      [tag |-> Upper[(counter % 26) + 1],
                       color |-> (counter % 26) % NumColors,
                       ema |-> None,
                       name |-> None,
                       addr_s |-> addr_str(addr)]),
          counter |-> counter + 1]
    ELSE [reg |-> reg, counter |-> counter]

\* hub_tag_color: the registry and the counter after the call
hub_tag_color(reg, counter, addr) ==
    IF addr \notin DOMAIN reg
    THEN [reg |-> Put(reg, addr,
                      [tag |-> Upper[(counter % 26) + 1],
                       color |-> counter % NumColors,
                       ema |-> None,
                       name |-> None,
                       addr_s |-> addr_str(addr)]),
          counter |-> counter + 1]
    ELSE [reg |-> reg, counter |-> counter]

\* RSSI_EMA_ALPHA * rssi + (1 - RSSI_EMA_ALPHA) * ema, as an exact fraction
ema_next(ema, rssi) ==
    IF IsNone(ema) THEN Some([num |-> rssi, den |-> 1])
    ELSE Some([num |-> RSSI_EMA_NUM * rssi * Val(ema).den
                       + (RSSI_EMA_DEN - RSSI_EMA_NUM) * Val(ema).num,
               den |-> RSSI_EMA_DEN * Val(ema).den])

\* An update that stores the raw reading every time.
update_rssi_ema_raw(reg, addr, rssi) ==
    Put(reg, addr, [reg[addr] EXCEPT !.ema = Some([num |-> rssi, den |-> 1])])

\* update_rssi_ema: the registry after the call
update_rssi_ema(reg, addr, rssi) ==
    Put(reg, addr, [reg[addr] EXCEPT !.ema = ema_next(reg[addr].ema, rssi)])

\* A name update that overwrites a name already stored.
update_hub_name_overwrite(reg, addr, name) ==
    IF name # ""
    THEN Put(reg, addr, [reg[addr] EXCEPT !.name = Some(name)])
    ELSE reg

\* update_hub_name: the registry after the call
update_hub_name(reg, addr, name) ==
    IF IsNone(reg[addr].name) /\ name # ""
    THEN Put(reg, addr, [reg[addr] EXCEPT !.name = Some(name)])
    ELSE reg

\* rssi_label for the value e.num / e.den
rssi_label(e) ==
    IF e.num >= (0 - 55) * e.den THEN "Very close"
    ELSE IF e.num >= (0 - 70) * e.den THEN "Nearby    "
    ELSE IF e.num >= (0 - 80) * e.den THEN "Far       "
    ELSE "Weak      "

\* int(e.num / e.den): truncation towards zero
int_of(e) == IF e.num < 0 THEN 0 - ((0 - e.num) \div e.den) ELSE e.num \div e.den

\* _format_line: the registry after update_rssi_ema and the fields of the
\* line (the elapsed time, a clock reading, is left out).
format_line(reg, addr, rssi, channel, decoded) ==
    LET reg1 == update_rssi_ema(reg, addr, rssi)
        e == Val(reg1[addr].ema)
    IN [reg |-> reg1,
        text |-> [addr |-> addr,
                  addr_s |-> reg[addr].addr_s,
                  color |-> reg[addr].color,
                  tag |-> reg[addr].tag,
                  name |-> IF IsNone(reg[addr].name) THEN "" ELSE Val(reg[addr].name),
                  channel |-> channel,
                  label |-> rssi_label(e),
                  dbm |-> int_of(e),
                  decoded |-> decoded]]

-----------------------------------------------------------------------------
(* Ingestion queue and dedup cache *)

\* An append that refuses the new item when the deque is full.
deque_append_drop_newest(q, item) ==
    IF Len(q) >= QueueCap THEN q ELSE Append(q, item)

\* deque.append on a deque with maxlen QueueCap
deque_append(q, item) ==
    IF Len(q) >= QueueCap THEN Append(Tail(q), item) ELSE Append(q, item)

\* key = addr_s_ + str(channel)
dedup_key(addr_s, channel) == addr_s \o NatStr(channel)

\* Python truthiness of an optional str
Truthy(name) == ~IsNone(name) /\ Val(name) # ""

\* One pass of the body of process_queue's loop on the tuple `item`, from the
\* call of find_local_name to the print: the structures after the pass,
\* the line printed (None when none), and whether an exception was raised.
process_item(item, reg, cache, counter, lv) ==
    LET addr == item.addr
        name == find_local_name(item.payload)
        same == [reg |-> reg, cache |-> cache, counter |-> counter, lv |-> lv,
                 line |-> None, raised |-> FALSE, parsed |-> FALSE]
    IN IF item.adv_type = 4
       THEN IF Truthy(name)
            THEN IF addr \in DOMAIN reg
                 THEN [same EXCEPT !.reg = update_hub_name(reg, addr, Val(name))]
                 ELSE [same EXCEPT !.cache = Put(cache, addr, Val(name))]
            ELSE same
       ELSE LET reg1 == IF Truthy(name) /\ addr \in DOMAIN reg
                        THEN update_hub_name(reg, addr, Val(name))
                        ELSE reg
                pr == parse_pybricks(item.payload)
            IN IF pr.raised THEN [same EXCEPT !.reg = reg1, !.raised = TRUE]
               ELSE IF IsNone(pr.result) THEN [same EXCEPT !.reg = reg1]
               ELSE LET channel == Val(pr.result).channel
                        decoded == Val(pr.result).decoded
                        h == hub_tag_color(reg1, counter, addr)
                        reg2 == IF addr \in DOMAIN cache
                                THEN update_hub_name(h.reg, addr, cache[addr])
                                ELSE h.reg
                        cache2 == IF addr \in DOMAIN cache
                                  THEN pop_name(cache, addr) ELSE cache
                        key == dedup_key(reg2[addr].addr_s, channel)
                        fl == format_line(reg2, addr, item.rssi, channel, decoded)
                    IN IF /\ SUPPRESS_DUPLICATES
                          /\ key \in DOMAIN lv
                          /\ lv[key] = decoded
                       THEN [reg |-> reg2, cache |-> cache2,
                             counter |-> h.counter, lv |-> lv,
                             line |-> None, raised |-> FALSE, parsed |-> TRUE]
                       ELSE [reg |-> fl.reg, cache |-> cache2,
                             counter |-> h.counter,
                             lv |-> IF SUPPRESS_DUPLICATES
                                    THEN Put(lv, key, decoded) ELSE lv,
                             line |-> Some(fl.text), raised |-> FALSE,
                             parsed |-> TRUE]

-----------------------------------------------------------------------------
(* The advertisements on the air.  A report is the data of a scan-result   *)
(* event: the address, the advertisement type, the RSSI and the payload.   *)

Report(addr, adv_type, rssi, adv_data) ==
    [addr |-> addr, adv_type |-> adv_type, rssi |-> rssi, adv_data |-> adv_data]

\* AD records
MfrRecord(channel, value) == <<4 + Len(value), 255, 151, 3, channel>> \o value
NameRecord(type, name) == <<1 + Len(name), type>> \o name
FlagsRecord == <<2, 1, 6>>

AddrA == <<1, 2, 3, 4, 5, 6>>
AddrB == <<17, 2, 3, 4, 5, 6>>

Int8_42 == <<97, 42>>
Int8_7 == <<97, 7>>
NameHub1 == <<72, 117, 98, 49>>
NameHub2 == <<72, 117, 98, 50>>
NameHub3 == <<72, 117, 98, 51>>

\* Two hubs and two channels whose keys differ only by where the address
\* text ends and the channel number starts.
AirDedup ==
    { Report(AddrA, 0, -60, MfrRecord(15, Int8_42)),
      Report(AddrB, 0, -60, MfrRecord(5, Int8_42)),
      Report(AddrA, 0, -60, MfrRecord(5, Int8_42)),
      Report(AddrA, 0, -60, MfrRecord(15, Int8_7)) }

\* One hub heard at two signal strengths.
AirRssi ==
    { Report(AddrA, 0, -50, MfrRecord(5, Int8_42)),
      Report(AddrA, 0, -90, MfrRecord(5, Int8_42)),
      Report(AddrA, 0, -90, MfrRecord(5, Int8_7)) }

\* One hub sending two names in scan responses and a third in its
\* advertisement.
AirNames ==
    { Report(AddrA, 4, -60, NameRecord(9, NameHub1)),
      Report(AddrA, 4, -60, NameRecord(8, NameHub2)),
      Report(AddrA, 0, -60, MfrRecord(5, Int8_42)),
      Report(AddrA, 0, -60, NameRecord(9, NameHub3) \o MfrRecord(5, Int8_7)) }

\* Scan responses with an empty name, a name that is not UTF-8, and a
\* manufacturer record.
AirOddNames ==
    { Report(AddrA, 4, -60, NameRecord(9, <<>>)),
      Report(AddrA, 4, -60, NameRecord(9, <<255>>)),
      Report(AddrB, 4, -60, MfrRecord(5, Int8_42) \o NameRecord(9, NameHub1)),
      Report(AddrB, 0, -60, FlagsRecord \o MfrRecord(5, Int8_42)) }

\* Values that cannot be decoded: an unknown type tag, an integer of
\* width 3, a truncated int16; and one that can.
AirUndecodable ==
    { Report(AddrA, 0, -60, MfrRecord(5, <<224, 0>>)),
      Report(AddrA, 0, -60, MfrRecord(5, <<99, 1, 2, 3>>)),
      Report(AddrB, 0, -60, MfrRecord(5, <<98, 1>>)),
      Report(AddrA, 0, -60, MfrRecord(5, Int8_42)) }

\* Text values, one of them not UTF-8.
AirText ==
    { Report(AddrA, 0, -60, MfrRecord(5, <<162, 97, 98>>)),
      Report(AddrA, 0, -60, MfrRecord(5, <<161, 255>>)),
      Report(AddrA, 4, -60, NameRecord(9, NameHub1)),
      Report(AddrB, 0, -60, MfrRecord(7, <<194, 1, 2>>)) }

\* Other broadcasters: no vendor identifier, the identifier's bytes inside
\* another manufacturer's data, and a vendor record cut after the identifier.
AirOthers ==
    { Report(AddrA, 0, -60, FlagsRecord \o NameRecord(9, NameHub1)),
      Report(AddrA, 3, -60, <<5, 255, 76, 0, 151, 3>>),
      Report(AddrB, 4, -60, FlagsRecord),
      Report(AddrB, 0, -60, <<3, 255, 151, 3>>) }

\* One value in several encodings: wrapped int16, float32, text, and bytes
\* on channel 255.
AirValues ==
    { Report(AddrA, 0, -60, MfrRecord(5, <<0, 98, 1, 0>>)),
      Report(AddrA, 0, -60, MfrRecord(5, <<132, 0, 0, 128, 63>>)),
      Report(AddrA, 0, -60, MfrRecord(5, <<161, 49>>)),
      Report(AddrA, 0, -60, MfrRecord(255, <<194, 254, 255>>)) }

\* One hub broadcasting a counter on one channel, one value for each event.
AirCounter ==
    { Report(AddrA, 0, -60, MfrRecord(5, <<97, n>>)) : n \in 1..MaxEvents }

Airs == {AirDedup, AirRssi, AirNames, AirOddNames, AirUndecodable, AirText,
         AirOthers, AirValues, AirCounter}

-----------------------------------------------------------------------------
(* The module's globals, as one record the handlers read and write *)

Globals ==
    [queue |-> queue, hub_registry |-> hub_registry, name_cache |-> name_cache,
     hub_counter |-> hub_counter, last_value |-> last_value,
     irq_count |-> irq_count, queue_count |-> queue_count,
     print_count |-> print_count, processed_count |-> processed_count,
     scan_is_running |-> scan_is_running, scan_starts |-> scan_starts,
     intentional_restart |-> intentional_restart, scanning |-> scanning]

SetGlobals(g) ==
    /\ queue' = g.queue
    /\ hub_registry' = g.hub_registry
    /\ name_cache' = g.name_cache
    /\ hub_counter' = g.hub_counter
    /\ last_value' = g.last_value
    /\ irq_count' = g.irq_count
    /\ queue_count' = g.queue_count
    /\ print_count' = g.print_count
    /\ processed_count' = g.processed_count
    /\ scan_is_running' = g.scan_is_running
    /\ scan_starts' = g.scan_starts
    /\ intentional_restart' = g.intentional_restart
    /\ scanning' = g.scanning

\* ble.gap_scan(SCAN_DURATION_MS, SCAN_INTERVAL_US, SCAN_WINDOW_US, SCAN_ACTIVE):
\* every call passes the same four parameters; the radio scans afterwards.
gap_scan_start(g) == [g EXCEPT !.scan_starts = @ + 1, !.scanning = TRUE]

\* The tuple bt_irq appends: (bytes(addr_), bytes(adv_data), int(rssi), adv_type)
Capture(data) ==
    [addr |-> data.addr, payload |-> data.adv_data, rssi |-> data.rssi,
     adv_type |-> data.adv_type]

\* A handler that stores the name of a scan response itself.
bt_irq_names(event, data, g) ==
    IF event = IRQ_SCAN_RESULT
    THEN LET g1 == [g EXCEPT !.irq_count = @ + 1]
             name == find_local_name(data.adv_data)
         IN IF data.adv_type = ADV_SCAN_RSP
            THEN IF Truthy(name)
                 THEN [g1 EXCEPT !.name_cache = Put(@, data.addr, Val(name))]
                 ELSE g1
            ELSE IF contains_pybricks_id(data.adv_data)
                 THEN [g1 EXCEPT !.queue_count = @ + 1,
                                 !.queue = deque_append(@, Capture(data))]
                 ELSE g1
    ELSE IF event = IRQ_SCAN_DONE
    THEN IF g.scan_is_running /\ ~g.intentional_restart
         THEN gap_scan_start(g) ELSE g
    ELSE g

\* A handler that restarts the scan without looking at scan_is_running.
bt_irq_rearm_always(event, data, g) ==
    IF event = IRQ_SCAN_RESULT
    THEN LET g1 == [g EXCEPT !.irq_count = @ + 1]
             put == [g1 EXCEPT !.queue_count = @ + 1,
                               !.queue = deque_append(@, Capture(data))]
         IN IF data.adv_type = ADV_SCAN_RSP THEN put
            ELSE IF contains_pybricks_id(data.adv_data) THEN put
            ELSE g1
    ELSE IF event = IRQ_SCAN_DONE
    THEN IF ~g.intentional_restart THEN gap_scan_start(g) ELSE g
    ELSE g

\* A handler that counts every scan result as queued.
bt_irq_counts_all(event, data, g) ==
    IF event = IRQ_SCAN_RESULT
    THEN LET g1 == [g EXCEPT !.irq_count = @ + 1, !.queue_count = @ + 1]
             put == [g1 EXCEPT !.queue = deque_append(@, Capture(data))]
         IN IF data.adv_type = ADV_SCAN_RSP THEN put
            ELSE IF contains_pybricks_id(data.adv_data) THEN put
            ELSE g1
    ELSE IF event = IRQ_SCAN_DONE
    THEN IF g.scan_is_running /\ ~g.intentional_restart
         THEN gap_scan_start(g) ELSE g
    ELSE g

\* bt_irq(event, data): the globals after the call.
bt_irq(event, data, g) ==
    IF event = IRQ_SCAN_RESULT
    THEN LET g1 == [g EXCEPT !.irq_count = @ + 1]
             put == [g1 EXCEPT !.queue_count = @ + 1,
                               !.queue = deque_append(@, Capture(data))]
         IN IF data.adv_type = ADV_SCAN_RSP THEN put
            ELSE IF contains_pybricks_id(data.adv_data) THEN put
            ELSE g1
    ELSE IF event = IRQ_SCAN_DONE
    THEN IF g.scan_is_running /\ ~g.intentional_restart
         THEN gap_scan_start(g) ELSE g
    ELSE g

-----------------------------------------------------------------------------
(* State machine *)

Running == pc \in {"loop", "pop", "body", "tail"}

\* The supervisor's variables at the start of the main loop: the clock
\* starts at 0 and _last_irq_check = time.ticks_ms(), _last_irq_count = [0].
\* hist records, for the properties: the capture events since the last
\* gap_scan start (since_start) and since the last assignment of the
\* baseline (since_mark), the clock at the last capture event or, if later,
\* at the last scan start by the main thread (event_at), the scan starts the
\* main thread
\* issued in this iteration of the main loop (iter_starts), the preventive
\* restarts so far (preventive), and the cause of the last ScanEnded event
\* bt_irq was given (done) with whether bt_irq then started a scan
\* (done_started).
SupIdle ==
    /\ last_irq_check = 0
    /\ last_irq_count = 0
    /\ loop_now = 0
    /\ clock = 0
    /\ done_pending = <<>>
    /\ ext_stops = 0
    /\ hist = [since_start |-> 0, since_mark |-> 0, event_at |-> 0,
               iter_starts |-> 0, preventive |-> 0, done |-> "",
               done_started |-> FALSE]

\* No function is under test.
FnIdle ==
    /\ probe = None
    /\ ret = None

Init ==
    /\ queue = <<>>
    /\ hub_registry = <<>>
    /\ name_cache = <<>>
    /\ hub_counter = 0
    /\ last_value = <<>>
    /\ irq_count = 0
    /\ queue_count = 0
    /\ print_count = 0
    /\ processed_count = 0
    /\ scan_is_running = TRUE
    /\ scan_starts = 1
    /\ pc = "loop"
    /\ cur = None
    /\ line = None
    /\ air \in Airs
    /\ irq_event = None
    /\ enqueued = <<>>
    /\ discarded = 0
    /\ last_seen = <<>>
    /\ intentional_restart = FALSE
    /\ scanning = TRUE
    /\ SupIdle
    /\ FnIdle

\* The radio delivers a scan result to bt_irq.
ScanResult ==
    /\ Running
    /\ irq_count < MaxEvents
    /\ \E data \in air :
         LET g == bt_irq(IRQ_SCAN_RESULT, data, Globals)
         IN /\ SetGlobals(g)
            /\ irq_event' = Some([event |-> IRQ_SCAN_RESULT, data |-> Some(data), at |-> pc])
            /\ enqueued' = IF g.queue_count # queue_count
                           THEN Append(enqueued, Capture(data)) ELSE enqueued
            /\ discarded' = IF g.queue_count # queue_count /\ Len(queue) >= QueueCap
                            THEN discarded + 1 ELSE discarded
    /\ UNCHANGED <<pc, cur, line, air, last_seen, sup_vars, fn_vars>>

\* The radio reports that the scan has ended.
ScanDone ==
    /\ Running
    /\ scan_starts < MaxScanStarts
    /\ SetGlobals(bt_irq(IRQ_SCAN_DONE, None, Globals))
    /\ irq_event' = Some([event |-> IRQ_SCAN_DONE, data |-> None, at |-> pc])
    /\ UNCHANGED <<pc, cur, line, air, enqueued, discarded, last_seen, sup_vars, fn_vars>>

\* process_queue: `while _queue:` and `_processed_count[0] += 1`
LoopTest ==
    /\ pc = "loop"
    /\ IF queue # <<>>
       THEN /\ processed_count' = processed_count + 1
            /\ pc' = "pop"
       ELSE /\ pc' = "tail"
            /\ UNCHANGED processed_count
    /\ UNCHANGED <<queue, hub_registry, name_cache, hub_counter, last_value,
                   irq_count, queue_count, print_count, scan_is_running,
                   scan_starts, cur, line, air, irq_event, enqueued, discarded, last_seen,
                   intentional_restart, scanning, sup_vars, fn_vars>>

\* A pop that takes the newest tuple.
PopNewest ==
    /\ pc = "pop"
    /\ cur' = Some(queue[Len(queue)])
    /\ queue' = SubSeq(queue, 1, Len(queue) - 1)
    /\ pc' = "body"
    /\ UNCHANGED <<hub_registry, name_cache, hub_counter, last_value, irq_count,
                   queue_count, print_count, processed_count, scan_is_running,
                   scan_starts, line, air, irq_event, enqueued, discarded, last_seen,
                   intentional_restart, scanning, sup_vars, fn_vars>>

\* process_queue: `... = _queue.popleft()`
PopLeft ==
    /\ pc = "pop"
    /\ cur' = Some(Head(queue))
    /\ queue' = Tail(queue)
    /\ pc' = "body"
    /\ UNCHANGED <<hub_registry, name_cache, hub_counter, last_value, irq_count,
                   queue_count, print_count, processed_count, scan_is_running,
                   scan_starts, line, air, irq_event, enqueued, discarded, last_seen,
                   intentional_restart, scanning, sup_vars, fn_vars>>

\* process_queue: the rest of the loop body.  An exception leaves the main
\* loop through `finally` (the radio is switched off) and ends the program.
Body ==
    /\ pc = "body"
    /\ LET item == Val(cur)
           r == process_item(item, hub_registry, name_cache, hub_counter, last_value)
       IN /\ hub_registry' = r.reg
          /\ name_cache' = r.cache
          /\ hub_counter' = r.counter
          /\ last_value' = r.lv
          /\ line' = r.line
          /\ print_count' = IF IsNone(r.line) THEN print_count ELSE print_count + 1
          /\ pc' = IF r.raised THEN "crashed" ELSE "loop"
          /\ last_seen' =
               IF r.parsed
               THEN LET p == Val(parse_pybricks(item.payload).result)
                    IN Put(last_seen, <<item.addr, p.channel>>, p.decoded)
               ELSE last_seen
    /\ UNCHANGED <<queue, irq_count, queue_count, processed_count,
                   scan_is_running, scan_starts, cur, air, irq_event, enqueued, discarded,
                   intentional_restart, scanning, sup_vars, fn_vars>>

\* The main loop after process_queue has returned, in a run that stays
\* below PREVENTIVE_RESTART_EVENTS events and WATCHDOG_SEC seconds: neither
\* the preventive restart nor the watchdog has anything to do (SupSpec has
\* the supervisor in full).
LoopTail ==
    /\ pc = "tail"
    /\ pc' = "loop"
    /\ UNCHANGED <<queue, hub_registry, name_cache, hub_counter, last_value,
                   irq_count, queue_count, print_count, processed_count,
                   scan_is_running, scan_starts, cur, line, air, irq_event,
                   enqueued, discarded, last_seen, intentional_restart, scanning,
                   sup_vars, fn_vars>>

\* Ctrl-C: `except KeyboardInterrupt` and `finally`
KeyboardInterrupt ==
    /\ Running
    /\ scan_is_running' = FALSE
    /\ pc' = "done"
    /\ UNCHANGED <<queue, hub_registry, name_cache, hub_counter, last_value,
                   irq_count, queue_count, print_count, processed_count,
                   scan_starts, cur, line, air, irq_event, enqueued, discarded, last_seen,
                   intentional_restart, scanning, sup_vars, fn_vars>>

Next ==
    \/ ScanResult
    \/ ScanDone
    \/ LoopTest
    \/ PopLeft
    \/ Body
    \/ LoopTail
    \/ KeyboardInterrupt

Spec == Init /\ [][Next]_vars

-----------------------------------------------------------------------------
(* The main loop with the scan supervisor.  The main thread's steps are    *)
(* those of process_queue, then: the read of the clock with the preventive *)
(* test, each of the two gap_scan commands of a restart, the assignments   *)
(* after a restart, and the watchdog test.  The radio delivers scan        *)
(* results while a scan is active, may end a scan by itself, and answers   *)
(* every gap_scan(None) with a ScanEnded event; it hands the pending       *)
(* ScanEnded events to bt_irq in order, at once or after any number of     *)
(* steps of the main thread, until ble.active(False); it holds back at     *)
(* most MaxPending of them.  The histories irq_event, enqueued and         *)
(* last_seen of Spec are not kept here.                                    *)

\* Only another broadcaster is on the air: bt_irq counts its advertisements
\* and queues none, so process_queue finds the queue empty.
AirSup == { Report(AddrB, 0, -60, FlagsRecord) }

SupRunning ==
    pc \in {"loop", "tail", "p_stop", "p_start", "p_clear", "wd", "w_stop",
            "w_start", "w_reset"}

\* `_irq_count[0] - _last_irq_count[0] >= PREVENTIVE_RESTART_EVENTS`, under
\* `if PREVENTIVE_RESTART_EVENTS > 0`
preventive_due_always(count, baseline) == PREVENTIVE_RESTART_EVENTS > 0

preventive_due(count, baseline) ==
    /\ PREVENTIVE_RESTART_EVENTS > 0
    /\ count - baseline >= PREVENTIVE_RESTART_EVENTS

\* `time.ticks_diff(now, _last_irq_check) >= WATCHDOG_SEC * 1000`
watchdog_window_over(now_, last_check) == now_ - last_check >= WatchdogTicks

\* `_irq_count[0] == _last_irq_count[0]`
irq_stalled_any(count, baseline) == TRUE

irq_stalled_never(count, baseline) == FALSE

irq_stalled(count, baseline) == count = baseline

SupInit ==
    /\ queue = <<>>
    /\ hub_registry = <<>>
    /\ name_cache = <<>>
    /\ hub_counter = 0
    /\ last_value = <<>>
    /\ irq_count = 0
    /\ queue_count = 0
    /\ print_count = 0
    /\ processed_count = 0
    /\ scan_is_running = TRUE
    /\ scan_starts = 1
    /\ pc = "loop"
    /\ cur = None
    /\ line = None
    /\ air = AirSup
    /\ irq_event = None
    /\ enqueued = <<>>
    /\ discarded = 0
    /\ last_seen = <<>>
    /\ intentional_restart = FALSE
    /\ scanning = TRUE
    /\ SupIdle
    /\ FnIdle

\* time.ticks_ms() moves on.
Tick ==
    /\ SupRunning
    /\ clock < MaxTime
    /\ clock' = clock + 1
    /\ UNCHANGED <<queue, hub_registry, name_cache, hub_counter, last_value,
                   irq_count, queue_count, print_count, processed_count,
                   scan_is_running, scan_starts, pc, cur, line, air, irq_event,
                   enqueued, discarded, last_seen, intentional_restart, last_irq_check,
                   last_irq_count, loop_now, scanning, done_pending, ext_stops,
                   hist, fn_vars>>

\* The radio delivers a scan result to bt_irq.
CaptureEvent ==
    /\ pc # "done"
    /\ scanning
    /\ irq_count < MaxSupEvents
    /\ \E data \in air : SetGlobals(bt_irq(IRQ_SCAN_RESULT, data, Globals))
    /\ hist' = [hist EXCEPT !.since_start = @ + 1, !.since_mark = @ + 1,
                            !.event_at = clock]
    /\ UNCHANGED <<pc, cur, line, air, irq_event, enqueued, discarded, last_seen,
                   last_irq_check, last_irq_count, loop_now, clock, done_pending,
                   ext_stops, fn_vars>>

\* The radio ends the scan by itself and reports it.
ExternalStop ==
    /\ pc # "done"
    /\ scanning
    /\ ext_stops < MaxExtStops
    /\ Len(done_pending) < MaxPending
    /\ scanning' = FALSE
    /\ ext_stops' = ext_stops + 1
    /\ done_pending' = Append(done_pending, "external")
    /\ UNCHANGED <<queue, hub_registry, name_cache, hub_counter, last_value,
                   irq_count, queue_count, print_count, processed_count,
                   scan_is_running, scan_starts, pc, cur, line, air, irq_event,
                   enqueued, discarded, last_seen, intentional_restart, last_irq_check,
                   last_irq_count, loop_now, clock, hist, fn_vars>>

\* The radio delivers the oldest pending ScanEnded event to bt_irq.
DeliverScanDone ==
    /\ pc # "done"
    /\ done_pending # <<>>
    /\ LET g == bt_irq(IRQ_SCAN_DONE, None, Globals)
       IN /\ SetGlobals(g)
          /\ hist' = [hist EXCEPT
                        !.since_start = IF g.scan_starts # scan_starts THEN 0 ELSE @,
                        !.done = Head(done_pending),
                        !.done_started = g.scan_starts # scan_starts]
    /\ done_pending' = Tail(done_pending)
    /\ UNCHANGED <<pc, cur, line, air, irq_event, enqueued, discarded, last_seen,
                   last_irq_check, last_irq_count, loop_now, clock, ext_stops,
                   fn_vars>>

\* What a step of the supervisor leaves alone: the queue, the registry, the
\* caches, the counters of bt_irq and process_queue, and the radio's books.
sup_frame == <<queue, hub_registry, name_cache, hub_counter, last_value,
               irq_count, queue_count, print_count, processed_count,
               scan_is_running, cur, line, air, irq_event, enqueued, discarded, last_seen,
               clock, ext_stops, fn_vars>>

\* `now = time.ticks_ms()` and the test of the preventive restart; when it is
\* due, `_intentional_restart = True`.
SupervisorCheck ==
    /\ pc = "tail"
    /\ loop_now' = clock
    /\ hist' = [hist EXCEPT !.iter_starts = 0]
    /\ IF preventive_due(irq_count, last_irq_count)
       THEN /\ intentional_restart' = TRUE
            /\ pc' = "p_stop"
       ELSE /\ pc' = "wd"
            /\ UNCHANGED intentional_restart
    /\ UNCHANGED <<sup_frame, scan_starts, scanning, done_pending,
                   last_irq_check, last_irq_count>>

\* Preventive restart: `ble.gap_scan(None)`
PreventiveStop ==
    /\ pc = "p_stop"
    /\ Len(done_pending) < MaxPending
    /\ scanning' = FALSE
    /\ done_pending' = Append(done_pending, "preventive")
    /\ pc' = "p_start"
    /\ UNCHANGED <<sup_frame, scan_starts, intentional_restart, last_irq_check,
                   last_irq_count, loop_now, hist>>

\* Preventive restart: `ble.gap_scan(SCAN_DURATION_MS, ...)`
PreventiveStart ==
    /\ pc = "p_start"
    /\ scan_starts' = scan_starts + 1
    /\ scanning' = TRUE
    /\ hist' = [hist EXCEPT !.since_start = 0, !.event_at = clock,
                            !.iter_starts = @ + 1, !.preventive = @ + 1]
    /\ pc' = "p_clear"
    /\ UNCHANGED <<sup_frame, done_pending, intentional_restart, last_irq_check,
                   last_irq_count, loop_now>>

\* Preventive restart: `_intentional_restart = False`, the new baseline and
\* the reset of the watchdog's clock.
PreventiveClear ==
    /\ pc = "p_clear"
    /\ intentional_restart' = FALSE
    /\ last_irq_count' = irq_count
    /\ last_irq_check' = loop_now
    /\ hist' = [hist EXCEPT !.since_mark = 0]
    /\ pc' = "wd"
    /\ UNCHANGED <<sup_frame, scan_starts, scanning, done_pending, loop_now>>

\* The two tests of the watchdog.  When its window is not over, the rest of
\* the iteration is the heartbeat and the sleep.
WatchdogCheck ==
    /\ pc = "wd"
    /\ pc' = IF watchdog_window_over(loop_now, last_irq_check)
             THEN IF irq_stalled(irq_count, last_irq_count)
                  THEN "w_stop" ELSE "w_reset"
             ELSE "loop"
    /\ UNCHANGED <<sup_frame, scan_starts, scanning, done_pending,
                   intentional_restart, last_irq_check, last_irq_count,
                   loop_now, hist>>

\* Watchdog restart: `ble.gap_scan(None)`
WatchdogStop ==
    /\ pc = "w_stop"
    /\ Len(done_pending) < MaxPending
    /\ scanning' = FALSE
    /\ done_pending' = Append(done_pending, "watchdog")
    /\ pc' = "w_start"
    /\ UNCHANGED <<sup_frame, scan_starts, intentional_restart, last_irq_check,
                   last_irq_count, loop_now, hist>>

\* Watchdog restart: `ble.gap_scan(SCAN_DURATION_MS, ...)`
WatchdogStart ==
    /\ pc = "w_start"
    /\ scan_starts' = scan_starts + 1
    /\ scanning' = TRUE
    /\ hist' = [hist EXCEPT !.since_start = 0, !.event_at = clock,
                            !.iter_starts = @ + 1]
    /\ pc' = "w_reset"
    /\ UNCHANGED <<sup_frame, done_pending, intentional_restart, last_irq_check,
                   last_irq_count, loop_now>>

\* The end of a watchdog check: the new baseline, the new start of the
\* window, and `continue`.
WatchdogReset ==
    /\ pc = "w_reset"
    /\ last_irq_count' = irq_count
    /\ last_irq_check' = loop_now
    /\ hist' = [hist EXCEPT !.since_mark = 0]
    /\ pc' = "loop"
    /\ UNCHANGED <<sup_frame, scan_starts, scanning, done_pending,
                   intentional_restart, loop_now>>

\* Ctrl-C: `except KeyboardInterrupt: scan_is_running = False`
SupKeyboardInterrupt ==
    /\ SupRunning
    /\ scan_is_running' = FALSE
    /\ pc' = "finally"
    /\ UNCHANGED <<queue, hub_registry, name_cache, hub_counter, last_value,
                   irq_count, queue_count, print_count, processed_count,
                   scan_starts, cur, line, air, irq_event, enqueued, discarded, last_seen,
                   intentional_restart, scanning, sup_vars, fn_vars>>

\* `finally: ble.gap_scan(None)`
FinallyStop ==
    /\ pc = "finally"
    /\ Len(done_pending) < MaxPending
    /\ scanning' = FALSE
    /\ done_pending' = Append(done_pending, "shutdown")
    /\ pc' = "off"
    /\ UNCHANGED <<sup_frame, scan_starts, intentional_restart, last_irq_check,
                   last_irq_count, loop_now, hist>>

\* `ble.active(False)`: the radio delivers nothing more.
RadioOff ==
    /\ pc = "off"
    /\ pc' = "done"
    /\ UNCHANGED <<sup_frame, scan_starts, scanning, done_pending,
                   intentional_restart, last_irq_check, last_irq_count,
                   loop_now, hist>>

SupNext ==
    \/ Tick
    \/ CaptureEvent
    \/ ExternalStop
    \/ DeliverScanDone
    \/ LoopTest
    \/ SupervisorCheck
    \/ PreventiveStop
    \/ PreventiveStart
    \/ PreventiveClear
    \/ WatchdogCheck
    \/ WatchdogStop
    \/ WatchdogStart
    \/ WatchdogReset
    \/ SupKeyboardInterrupt
    \/ FinallyStop
    \/ RadioOff

SupSpec == SupInit /\ [][SupNext]_vars

-----------------------------------------------------------------------------
(* The record walkers and parse_pybricks on their own.  A payload is a     *)
(* sequence of well-formed AD records followed by a tail that is empty or  *)
(* starts with a zero length byte or with a length byte that runs past     *)
(* the end of the payload.                                                 *)

\* The concatenation of the byte strings in recs.
RECURSIVE Flatten(_)
Flatten(recs) == IF recs = <<>> THEN <<>> ELSE Head(recs) \o Flatten(Tail(recs))

\* The sequences of at most n elements of S.
RECURSIVE SeqsUpTo(_, _)
SeqsUpTo(S, n) ==
    IF n = 0 THEN {<<>>}
    ELSE LET shorter == SeqsUpTo(S, n - 1)
         IN shorter \cup {Append(q, r) : q \in shorter, r \in S}

\* Values after the channel byte: none, the true and false literals alone,
\* an int8, a wrapped int16, a text, raw bytes, and an unknown type tag.
PacketValues ==
    { <<>>, <<32>>, <<64>>, Int8_42, <<0, 98, 1, 0>>, <<161, 49>>,
      <<194, 254, 255>>, <<255, 255>> }

\* Well-formed records: flags, a name, a name that is not UTF-8, a vendor
\* record, a vendor record that ends after the identifier, manufacturer
\* data too short for an identifier, another manufacturer's data.
WalkRecords ==
    { FlagsRecord, NameRecord(9, NameHub1), NameRecord(8, <<255>>),
      MfrRecord(5, Int8_42), <<3, 255, 151, 3>>, <<2, 255, 151>>,
      <<3, 255, 76, 0>> }

\* Tails that end the walk: a zero length byte before a vendor record and
\* before a name record, a vendor record and a name record declared one
\* byte longer than what is left, and a length byte with nothing after it.
BadTails ==
    { <<0>> \o MfrRecord(5, Int8_42),
      <<0>> \o NameRecord(9, NameHub1),
      <<7, 255, 151, 3, 5, 97, 42>>,
      <<6, 9, 72, 117, 98, 49>>,
      <<5>>,
      <<1>> }

\* A vendor packet on channel c, alone or with a flags record on either side.
PacketProbes ==
    { [records |-> pre \o <<MfrRecord(c, v)>> \o suf, tail |-> <<>>,
       channel |-> c, value |-> v, wraps |-> <<>>] :
        c \in 0..255, v \in PacketValues,
        pre \in {<<>>, <<FlagsRecord>>}, suf \in {<<>>, <<FlagsRecord>>} }

WalkProbes ==
    { [records |-> recs, tail |-> t, channel |-> -1, value |-> <<>>,
       wraps |-> <<>>] :
        recs \in SeqsUpTo(WalkRecords, MaxRecords), t \in BadTails \cup {<<>>} }

\* Encoded values: nothing, the true and false literals, an int8, an int16,
\* an int32, a float32, a text, raw bytes, an unknown type tag, an int16
\* with a byte missing, a text with a byte missing, and a text that is not
\* UTF-8.
DecodeValues ==
    { <<>>, <<32>>, <<64>>, Int8_42, <<98, 1, 0>>, <<100, 255, 255, 255, 255>>,
      <<132, 0, 0, 128, 63>>, <<162, 97, 98>>, <<194, 254, 255>>, <<224>>,
      <<98, 1>>, <<162, 97>>, <<161, 255>> }

\* Single-object headers: the type bits are 0, the length bits are not read.
WrapHeaders == {0, 31}

\* An encoded value behind up to MaxWraps single-object headers.
DecodeProbes ==
    { [records |-> <<>>, tail |-> <<>>, channel |-> -1, value |-> v,
       wraps |-> w] :
        v \in DecodeValues, w \in SeqsUpTo(WrapHeaders, MaxWraps) }

\* The data given to decode_value: the headers, then the encoded value.
Wrapped(p) == p.wraps \o p.value

Payload(p) == Flatten(p.records) \o p.tail

FnInit ==
    /\ queue = <<>>
    /\ hub_registry = <<>>
    /\ name_cache = <<>>
    /\ hub_counter = 0
    /\ last_value = <<>>
    /\ irq_count = 0
    /\ queue_count = 0
    /\ print_count = 0
    /\ processed_count = 0
    /\ scan_is_running = TRUE
    /\ scan_starts = 0
    /\ pc = "call"
    /\ cur = None
    /\ line = None
    /\ air = {}
    /\ irq_event = None
    /\ enqueued = <<>>
    /\ discarded = 0
    /\ last_seen = <<>>
    /\ intentional_restart = FALSE
    /\ scanning = FALSE
    /\ SupIdle
    /\ probe \in PacketProbes \cup WalkProbes \cup DecodeProbes
    /\ ret = None

\* What a call of a pure function leaves alone.
fn_frame == <<queue, hub_registry, name_cache, hub_counter, last_value,
              irq_count, queue_count, print_count, processed_count,
              scan_is_running, scan_starts, cur, line, air, irq_event,
              enqueued, discarded, last_seen, intentional_restart, scanning, sup_vars,
              probe>>

CallParsePybricks ==
    /\ pc = "call"
    /\ ret' = [fn |-> "parse_pybricks", value |-> parse_pybricks(Payload(probe)),
               reads |-> {}]
    /\ pc' = "ret"
    /\ UNCHANGED fn_frame

CallFindMfrOffset ==
    /\ pc = "call"
    /\ ret' = [fn |-> "find_mfr_offset", value |-> find_mfr_offset(Payload(probe)),
               reads |-> find_mfr_offset_reads(Payload(probe), 0)]
    /\ pc' = "ret"
    /\ UNCHANGED fn_frame

CallFindLocalName ==
    /\ pc = "call"
    /\ ret' = [fn |-> "find_local_name", value |-> find_local_name(Payload(probe)),
               reads |-> find_local_name_reads(Payload(probe), 0)]
    /\ pc' = "ret"
    /\ UNCHANGED fn_frame

CallDecodeValue ==
    /\ pc = "call"
    /\ ret' = [fn |-> "decode_value", value |-> decode_value(Wrapped(probe), 0),
               reads |-> {}]
    /\ pc' = "ret"
    /\ UNCHANGED fn_frame

\* The report bt_irq is given for the payload under test: a primary
\* advertisement.
ProbeReport == Report(AddrA, 0, -60, Payload(probe))

\* bt_irq(_IRQ_SCAN_RESULT, ...) on the payload under test; ret keeps what
\* the handler's pre-filter returned.
CallBtIrq ==
    /\ pc = "call"
    /\ LET g == bt_irq(IRQ_SCAN_RESULT, ProbeReport, Globals)
       IN /\ SetGlobals(g)
          /\ enqueued' = IF g.queue_count # queue_count
                         THEN Append(enqueued, Capture(ProbeReport)) ELSE enqueued
    /\ ret' = [fn |-> "bt_irq", value |-> contains_pybricks_id(Payload(probe)),
               reads |-> {}]
    /\ pc' = "ret"
    /\ UNCHANGED <<cur, line, air, irq_event, discarded, last_seen, sup_vars, probe>>

FnNext ==
    \/ CallParsePybricks
    \/ CallFindMfrOffset
    \/ CallFindLocalName
    \/ CallDecodeValue
    \/ CallBtIrq

FnSpec == FnInit /\ [][FnNext]_vars

-----------------------------------------------------------------------------
(* hub_tag_color on a long run of hubs.  process_queue resolves the address *)
(* of every parsed packet; RegSpec makes those calls alone, for MaxHubs     *)
(* addresses that are first heard one after the other, going up or down     *)
(* from any of them, and heard again in any order.                          *)

HubAddr(n) == <<n, 2, 3, 4, 5, 6>>

\* The order of first appearance: where it starts and which way it goes.
HubOrders == { [first |-> f, step |-> d] : f \in 0..(MaxHubs - 1), d \in {1, MaxHubs - 1} }

\* The k-th address to appear, counting from 0.
NthAddr(k) == HubAddr((probe.first + k * probe.step) % MaxHubs)

RegInit ==
    /\ queue = <<>>
    /\ hub_registry = <<>>
    /\ name_cache = <<>>
    /\ hub_counter = 0
    /\ last_value = <<>>
    /\ irq_count = 0
    /\ queue_count = 0
    /\ print_count = 0
    /\ processed_count = 0
    /\ scan_is_running = TRUE
    /\ scan_starts = 1
    /\ pc = "resolve"
    /\ cur = None
    /\ line = None
    /\ air = {}
    /\ irq_event = None
    /\ enqueued = <<>>
    /\ discarded = 0
    /\ last_seen = <<>>
    /\ intentional_restart = FALSE
    /\ scanning = TRUE
    /\ SupIdle
    /\ probe \in HubOrders
    /\ ret = None

\* What a call of hub_tag_color leaves alone.
reg_frame == <<queue, name_cache, last_value, irq_count, queue_count,
               print_count, processed_count, scan_is_running, scan_starts,
               pc, cur, line, air, irq_event, enqueued, discarded, last_seen,
               intentional_restart, scanning, sup_vars, probe>>

\* hub_tag_color(addr_): the globals after the call and the record returned
Resolve(addr) ==
    LET h == hub_tag_color(hub_registry, hub_counter, addr)
    IN /\ hub_registry' = h.reg
       /\ hub_counter' = h.counter
       /\ ret' = [fn |-> "hub_tag_color", value |-> h.reg[addr], reads |-> {},
                  addr |-> addr]
       /\ UNCHANGED reg_frame

\* A packet of a hub not heard before.
ResolveNew ==
    /\ pc = "resolve"
    /\ hub_counter < MaxHubs
    /\ Resolve(NthAddr(hub_counter))

\* A packet of a hub heard before.
ResolveKnown ==
    /\ pc = "resolve"
    /\ \E addr \in DOMAIN hub_registry : Resolve(addr)

RegNext ==
    \/ ResolveNew
    \/ ResolveKnown

RegSpec == RegInit /\ [][RegNext]_vars

-----------------------------------------------------------------------------
(* Properties *)

Last(q) == q[Len(q)]

\* The tuple the body of process_queue is working on, or has just finished.
Item == Val(cur)

\* The packet is a primary advertisement that parse_pybricks accepts.
Parsed(item) ==
    /\ item.adv_type # ADV_SCAN_RSP
    /\ ~parse_pybricks(item.payload).raised
    /\ ~IsNone(parse_pybricks(item.payload).result)

Channel(item) == Val(parse_pybricks(item.payload).result).channel
Decoded(item) == Val(parse_pybricks(item.payload).result).decoded

\* The body of process_queue has just finished a pass on Item.
AfterBody == pc = "loop" /\ ~IsNone(cur)

\* The step is a pass of the body of process_queue on Item.
BodyStep == pc = "body" /\ pc' \in {"loop", "crashed"}

\* The two consecutive bytes 0x97 0x03 occur in b.
HasIdPair(b) == \E i \in 1..(Len(b) - 1) : b[i] = 151 /\ b[i + 1] = 3

\* C1: the queue never holds more than its capacity; it is always the most
\* recent part of what was enqueued, in arrival order; before the first
\* popleft it holds min(enqueued, capacity) tuples; and an append to a full
\* queue drops exactly the oldest tuple and admits the new one.
C1_QueueBounded ==
    /\ [](/\ Len(queue) <= QueueCap
          /\ Len(queue) <= Len(enqueued)
          /\ queue = SubSeq(enqueued, Len(enqueued) - Len(queue) + 1, Len(enqueued))
          /\ (IsNone(cur) => Len(queue) = Min(Len(enqueued), QueueCap)))
    /\ [][enqueued' # enqueued =>
            queue' = IF Len(queue) = QueueCap
                     THEN Append(Tail(queue), Last(enqueued'))
                     ELSE Append(queue, Last(enqueued'))]_vars

\* C1 witness: capacity + 1 tuples were appended before any popleft, and the
\* queue holds the last `capacity` of them.
C1_Witness ==
    /\ IsNone(cur)
    /\ Len(enqueued) = QueueCap + 1
    /\ queue = Tail(enqueued)
    /\ Len(queue) = QueueCap

\* C2: with dedup on, a parsed vendor packet prints a line exactly when no
\* packet with the same (address, channel) was parsed before or the last such
\* packet had a different decoded text.
C2_DedupIff ==
    [][(BodyStep /\ Parsed(Item)) =>
         LET k == <<Item.addr, Channel(Item)>>
         IN /\ (~IsNone(line')) <=>
                  (k \notin DOMAIN last_seen \/ last_seen[k] # Decoded(Item))
            /\ (~IsNone(line')) <=> (print_count' = print_count + 1)
            /\ ~IsNone(line') => Val(line').decoded = Decoded(Item)]_vars

\* C2 witness: a packet was suppressed while the history holds a second
\* (address, channel) pair with the same text.
C2_Witness ==
    /\ AfterBody
    /\ Parsed(Item)
    /\ IsNone(line)
    /\ \E k \in DOMAIN last_seen :
         /\ k # <<Item.addr, Channel(Item)>>
         /\ last_seen[k] = Decoded(Item)

\* The vendor block of a primary advertisement is found and the value after
\* the channel byte cannot be decoded.
Undecodable(item) ==
    LET offset == find_mfr_offset(item.payload)
        dv == decode_value(Slice(item.payload, offset + 3, Len(item.payload)), 0)
    IN /\ item.adv_type # ADV_SCAN_RSP
       /\ offset >= 0
       /\ ~dv.raised
       /\ IsNone(dv.value)

\* C3 as claimed: a packet whose value cannot be decoded creates no record,
\* prints no line and leaves the dedup cache unchanged.
C3_DiscardedSilently ==
    [][(BodyStep /\ Undecodable(Item)) =>
         /\ DOMAIN hub_registry' = DOMAIN hub_registry
         /\ IsNone(line')
         /\ last_value' = last_value]_vars

\* C3 amended: such a packet is discarded silently only when fewer than 5
\* bytes follow the block's offset; otherwise it is handled as a vendor
\* packet with the text "?": the record exists afterwards, the dedup cache
\* holds "?" under its key, and a line showing "?" is printed unless the
\* cache already held "?" under that key.
C3_UndecodableShownAsUnknown ==
    [][(BodyStep /\ Undecodable(Item)) =>
         LET offset == find_mfr_offset(Item.payload)
             key == addr_str(Item.addr) \o NatStr(At(Item.payload, offset + 2))
         IN IF offset + 5 > Len(Item.payload)
            THEN /\ DOMAIN hub_registry' = DOMAIN hub_registry
                 /\ IsNone(line')
                 /\ last_value' = last_value
            ELSE /\ Item.addr \in DOMAIN hub_registry'
                 /\ key \in DOMAIN last_value'
                 /\ last_value'[key] = "?"
                 /\ IsNone(line') <=>
                      (key \in DOMAIN last_value /\ last_value[key] = "?")
                 /\ ~IsNone(line') => Val(line').decoded = "?"]_vars

\* C3 witness: a packet with an undecodable value created the record of its
\* address and was printed as "?".
C3_Witness ==
    /\ AfterBody
    /\ Undecodable(Item)
    /\ hub_counter = 1
    /\ Item.addr \in DOMAIN hub_registry
    /\ ~IsNone(line)
    /\ Val(line).decoded = "?"

\* C4 as claimed: no exception escapes the decode path, so the program never
\* leaves the processing loop through an exception.
C4_NoExceptionEscapes == pc # "crashed"

\* C5: a stored name is never the empty string, an update with the empty
\* name changes nothing, and a non-empty name never changes afterwards.
C5_NameWriteOnce ==
    /\ [](\A a \in DOMAIN hub_registry :
            /\ hub_registry[a].name # Some("")
            /\ update_hub_name(hub_registry, a, "") = hub_registry)
    /\ [][\A a \in DOMAIN hub_registry :
            Truthy(hub_registry[a].name) =>
               /\ a \in DOMAIN hub_registry'
               /\ hub_registry'[a].name = hub_registry[a].name]_vars

\* C5 witness: a packet carrying a name was processed for a hub whose record
\* holds a different name, after a line with a signal update was printed.
C5_Witness ==
    /\ AfterBody
    /\ Item.addr \in DOMAIN hub_registry
    /\ Truthy(find_local_name(Item.payload))
    /\ Truthy(hub_registry[Item.addr].name)
    /\ hub_registry[Item.addr].name # find_local_name(Item.payload)
    /\ ~IsNone(hub_registry[Item.addr].ema)

\* C6: a record is never removed, its tag, color and address text never
\* change, and resolving its address again returns it and creates nothing.
C6_IdentityStable ==
    /\ [](\A a \in DOMAIN hub_registry :
            hub_tag_color(hub_registry, hub_counter, a) =
               [reg |-> hub_registry, counter |-> hub_counter])
    /\ [][\A a \in DOMAIN hub_registry :
            /\ a \in DOMAIN hub_registry'
            /\ hub_registry'[a].tag = hub_registry[a].tag
            /\ hub_registry'[a].color = hub_registry[a].color
            /\ hub_registry'[a].addr_s = hub_registry[a].addr_s]_vars

\* C6 witness: two lines were printed for the only hub of the registry, so
\* its address was resolved twice.
C6_Witness ==
    /\ AfterBody
    /\ Parsed(Item)
    /\ print_count >= 2
    /\ DOMAIN hub_registry = {Item.addr}
    /\ hub_counter = 1

\* C7: no address is in both the pending-name cache and the registry; a
\* scan response with a name for an unknown address stores the name in the
\* cache; the packet that creates the record of a cached address removes the
\* entry and makes it the record's name; an entry leaves the cache in no
\* other way.
C7_PendingNamePromoted ==
    /\ [](DOMAIN name_cache \cap DOMAIN hub_registry = {})
    /\ [][/\ (/\ BodyStep
              /\ Item.adv_type = ADV_SCAN_RSP
              /\ Truthy(find_local_name(Item.payload))
              /\ Item.addr \notin DOMAIN hub_registry)
             => (/\ Item.addr \in DOMAIN name_cache'
                 /\ name_cache'[Item.addr] = Val(find_local_name(Item.payload)))
          /\ \A a \in DOMAIN name_cache :
               \/ a \in DOMAIN name_cache'
               \/ /\ BodyStep
                  /\ Item.addr = a
                  /\ Parsed(Item)
                  /\ a \notin DOMAIN hub_registry
                  /\ a \in DOMAIN hub_registry'
                  /\ hub_registry'[a].name = Some(name_cache[a])
          /\ \A a \in DOMAIN hub_registry' \ DOMAIN hub_registry :
               a \in DOMAIN name_cache =>
                  /\ a \notin DOMAIN name_cache'
                  /\ hub_registry'[a].name = Some(name_cache[a])]_vars

\* C7 witness: a scan response and then the first vendor packet of the same
\* address were processed; the packet carries no name, the record has the
\* name and the cache is empty.
C7_Witness ==
    /\ AfterBody
    /\ processed_count = 2
    /\ Parsed(Item)
    /\ IsNone(find_local_name(Item.payload))
    /\ hub_counter = 1
    /\ Truthy(hub_registry[Item.addr].name)
    /\ name_cache = <<>>

\* The smoothed signal of addr before a pass of the body.
EmaBefore(addr) ==
    IF addr \in DOMAIN hub_registry THEN hub_registry[addr].ema ELSE None

\* Two smoothed signals have the same value.
SameSignal(a, b) ==
    /\ IsNone(a) <=> IsNone(b)
    /\ ~IsNone(a) => Val(a).num * Val(b).den = Val(b).num * Val(a).den

\* C8 as claimed: every parsed vendor packet updates the smoothed signal of
\* its hub exactly once, printed or suppressed.
C8_SignalUpdatedPerPacket ==
    [][(BodyStep /\ Parsed(Item)) =>
         SameSignal(hub_registry'[Item.addr].ema,
                    ema_next(EmaBefore(Item.addr), Item.rssi))]_vars

\* C8 amended: a parsed vendor packet whose line is printed updates the
\* smoothed signal of its hub exactly once, the first update storing the raw
\* reading; a packet suppressed by the dedup filter leaves it unchanged.
C8_SignalUpdatedPerLine ==
    [][(BodyStep /\ Parsed(Item)) =>
         /\ ~IsNone(line') =>
              /\ hub_registry'[Item.addr].ema =
                    ema_next(EmaBefore(Item.addr), Item.rssi)
              /\ IsNone(EmaBefore(Item.addr)) =>
                    hub_registry'[Item.addr].ema =
                       Some([num |-> Item.rssi, den |-> 1])
         /\ IsNone(line') =>
              hub_registry'[Item.addr].ema = EmaBefore(Item.addr)]_vars

\* C8 witness: a packet was suppressed after two lines were printed for its
\* hub at different signal strengths.
C8_Witness ==
    /\ AfterBody
    /\ Parsed(Item)
    /\ IsNone(line)
    /\ print_count = 2
    /\ hub_counter = 1
    /\ Val(hub_registry[Item.addr].ema).den = RSSI_EMA_DEN
    /\ Val(hub_registry[Item.addr].ema).num # RSSI_EMA_DEN * Item.rssi

C10_CaptureFrame ==
    [][/\ (irq_count' # irq_count \/ scan_starts' # scan_starts) =>
            /\ UNCHANGED <<hub_registry, name_cache, hub_counter, last_value,
                           processed_count, print_count, scan_is_running>>
            /\ irq_count' # irq_count => scan_starts' = scan_starts
       /\ (\/ hub_registry' # hub_registry
           \/ name_cache' # name_cache
           \/ last_value' # last_value
           \/ hub_counter' # hub_counter
           \/ print_count' # print_count) => BodyStep
       /\ processed_count' # processed_count => pc = "loop"]_vars

\* C10 witness: a scan result was enqueued while the body of process_queue
\* was at work on a tuple, with a record in the registry.
C10_Witness ==
    /\ ~IsNone(irq_event)
    /\ Val(irq_event).event = IRQ_SCAN_RESULT
    /\ Val(irq_event).at = "body"
    /\ pc = "body"
    /\ hub_registry # <<>>
    /\ last_value # <<>>
    /\ queue # <<>>
    /\ Last(queue) = Capture(Val(Val(irq_event).data))

-----------------------------------------------------------------------------
(* Properties of the scan supervisor (SupSpec) *)

\* The step is the supervisor's read of the clock and preventive test.
SupCheckStep == pc = "tail" /\ pc' \in {"p_stop", "wd"}

\* The step is the watchdog's test.
WatchdogStep == pc = "wd" /\ pc' \in {"w_stop", "w_reset", "loop"}

\* The step hands the oldest pending ScanEnded event to bt_irq.
DeliverStep == done_pending # <<>> /\ done_pending' = Tail(done_pending)

\* The main thread has left the main loop.
Shutdown == pc \in {"finally", "off", "done"}

\* C11: with a positive threshold, a supervisor check starts a preventive
\* restart exactly when the event count minus the baseline has reached the
\* threshold; the restart is gap_scan(None), then gap_scan with the scan
\* parameters, then the baseline becomes the current count and the watchdog's
\* window starts again at this iteration's `now`; the main thread starts the
\* scan at most once per iteration of the main loop (the watchdog does not
\* restart it again), and every preventive restart has its own
\* PREVENTIVE_RESTART_EVENTS events.
C11_PreventiveRestart ==
    [][/\ SupCheckStep =>
            (pc' = "p_stop" <=>
               irq_count - last_irq_count >= PREVENTIVE_RESTART_EVENTS)
       /\ pc = "p_stop" => pc' \in {"p_stop", "p_start", "finally"}
       /\ (pc = "p_stop" /\ pc' = "p_start") =>
            /\ ~scanning'
            /\ done_pending' = Append(done_pending, "preventive")
            /\ scan_starts' = scan_starts
       /\ pc = "p_start" => pc' \in {"p_start", "p_clear", "finally"}
       /\ (pc = "p_start" /\ pc' = "p_clear") =>
            /\ scanning'
            /\ scan_starts' = scan_starts + 1
       /\ (pc = "p_clear" /\ pc' = "wd") =>
            /\ last_irq_count' = irq_count
            /\ last_irq_check' = loop_now
       /\ hist'.iter_starts <= 1
       /\ hist'.preventive * PREVENTIVE_RESTART_EVENTS <= irq_count'
      ]_vars

\* A preventive restart has just been completed and the watchdog's test of
\* the same iteration comes next.
C11_Witness ==
    /\ pc = "wd"
    /\ hist.preventive = 1
    /\ hist.iter_starts = 1
    /\ last_irq_count = irq_count
    /\ irq_count >= PREVENTIVE_RESTART_EVENTS

\* C12: at a supervisor check at which the capture events received since the
\* scan was last started have reached PREVENTIVE_RESTART_EVENTS, a preventive
\* restart is performed.
C12_RestartAfterThreshold ==
    [][(SupCheckStep /\ hist.since_start >= PREVENTIVE_RESTART_EVENTS) =>
         pc' = "p_stop"]_vars

\* C13: the watchdog restarts the scan only at a check whose `now` is at
\* least the watchdog time-out after the previous watchdog check or
\* preventive restart and at which no capture event has been counted since
\* then.
C13_WatchdogOnlyWhenSilent ==
    [][/\ (WatchdogStep /\ pc' = "w_stop") =>
            /\ loop_now - last_irq_check >= WatchdogTicks
            /\ hist.since_mark = 0
       /\ (pc # "w_stop" /\ pc' = "w_stop") => WatchdogStep
       /\ (pc = "w_stop" /\ pc' = "w_start") =>
            /\ ~scanning'
            /\ done_pending' = Append(done_pending, "watchdog")
       /\ (pc = "w_start" /\ pc' = "w_reset") =>
            /\ scanning'
            /\ scan_starts' = scan_starts + 1
      ]_vars

\* The watchdog has found the window over and no event counted in it.
C13_Witness ==
    /\ pc = "w_stop"
    /\ hist.since_mark = 0
    /\ loop_now - last_irq_check >= WatchdogTicks
    /\ irq_count > 0

C15_OwnStopNotRecovered ==
    [][(DeliverStep /\ Head(done_pending) \in {"preventive", "watchdog"}) =>
         scan_starts' = scan_starts]_vars

\* C16: while the observer runs, once the ScanEnded event of a scan the
\* radio ended by itself has been given to bt_irq, the scan is active again
\* whenever the main thread is outside a restart.
C16_ExternalStopRearmed ==
    (/\ scan_is_running
     /\ pc \in {"loop", "tail", "wd"}
     /\ done_pending = <<>>) => scanning

\* C17: after Ctrl-C the main loop is not entered again, scan_is_running is
\* False, gap_scan(None) is issued before the radio is switched off, and no
\* gap_scan start is issued any more, whatever ScanEnded events bt_irq is
\* given.
C17_OrderlyShutdown ==
    [][/\ Shutdown => (Shutdown' /\ scan_starts' = scan_starts)
       /\ Shutdown' => ~scan_is_running'
       /\ (pc = "finally" /\ pc' = "off") =>
            done_pending' = Append(done_pending, "shutdown")
       /\ pc' \in {"off", "done"} => ~scanning'
      ]_vars

\* The radio is off and bt_irq was given the ScanEnded event of the final
\* gap_scan(None).
C17_Witness ==
    /\ pc = "done"
    /\ hist.done = "shutdown"
    /\ ~hist.done_started
    /\ done_pending = <<>>

-----------------------------------------------------------------------------
(* Properties of the walkers and of parse_pybricks (FnSpec) *)

Returned(fn) == pc = "ret" /\ ret.fn = fn

\* r is a manufacturer record that starts with the vendor identifier.
IsVendorRecord(r) == r[2] = 255 /\ r[1] >= 3 /\ r[3] = 151 /\ r[4] = 3

IsNameRecord(r) == r[2] \in {8, 9}

\* The least element of a non-empty set of numbers.
Least(S) == CHOOSE k \in S : \A m \in S : k <= m

\* The index of the first byte after the type byte of the first vendor
\* record among recs, -1 if there is none.
ExpectedOffset(recs) ==
    LET ks == {k \in 1..Len(recs) : IsVendorRecord(recs[k])}
    IN IF ks = {} THEN -1
       ELSE Len(Flatten(SubSeq(recs, 1, Least(ks) - 1))) + 2

\* The text of the first name record among recs; None if there is none or
\* its bytes are not UTF-8.
ExpectedName(recs) ==
    LET ks == {k \in 1..Len(recs) : IsNameRecord(recs[k])}
    IN IF ks = {} THEN None
       ELSE LET r == recs[Least(ks)]
                name == SubSeq(r, 3, Len(r))
            IN IF Utf8Valid(name) THEN Some(Utf8Text(name)) ELSE None

C19_FourBytesSuffice ==
    (Returned("parse_pybricks") /\ ExpectedOffset(probe.records) >= 0) =>
        LET remaining == Len(Payload(probe)) - ExpectedOffset(probe.records)
        IN /\ IsNone(ret.value.result) <=> remaining < 4
           /\ (probe.value = <<32>> /\ remaining = 4) =>
                ret.value.result =
                    Some([channel |-> probe.channel, decoded |-> "True"])
           /\ (probe.value = <<64>> /\ remaining = 4) =>
                ret.value.result =
                    Some([channel |-> probe.channel, decoded |-> "False"])

\* C20: find_mfr_offset and find_local_name read payload only at indices
\* below its length; a zero length byte, or a length byte that declares more
\* than what is left, ends the walk: the result is that of the well-formed
\* records before it, not found if none of them is accepted.
C20_WalkStaysInside ==
    /\ Returned("find_mfr_offset") =>
         /\ \A i \in ret.reads : i >= 0 /\ i < Len(Payload(probe))
         /\ ret.value = ExpectedOffset(probe.records)
    /\ Returned("find_local_name") =>
         /\ \A i \in ret.reads : i >= 0 /\ i < Len(Payload(probe))
         /\ ret.value = ExpectedName(probe.records)

\* A vendor record declared one byte longer than what is left, after a
\* well-formed flags record: not found, with the last byte of the payload
\* never passed.
C20_Witness ==
    /\ Returned("find_mfr_offset")
    /\ probe.records = <<FlagsRecord>>
    /\ probe.tail = <<7, 255, 151, 3, 5, 97, 42>>
    /\ ret.value = -1
    /\ ret.reads = {0, 1, 3}

-----------------------------------------------------------------------------
(* Properties of the pre-filter (FnSpec) *)

\* C21: the pre-filter has no false negatives.  Whenever find_mfr_offset
\* finds a vendor record in a payload, contains_pybricks_id is true of that
\* payload, and bt_irq, given the payload in a primary advertisement, enqueues
\* the capture.
C21_NoFalseNegative ==
    (Returned("bt_irq") /\ find_mfr_offset(Payload(probe)) >= 0) =>
        /\ ret.value = TRUE
        /\ queue_count = 1
        /\ queue = <<Capture(ProbeReport)>>

\* C21 witness: bt_irq enqueued a payload whose vendor record comes after
\* another record and ends with the identifier, the last two bytes of the
\* payload.
C21_Witness ==
    /\ Returned("bt_irq")
    /\ probe.records = <<FlagsRecord, <<3, 255, 151, 3>>>>
    /\ probe.tail = <<>>
    /\ find_mfr_offset(Payload(probe)) = 5
    /\ queue = <<Capture(ProbeReport)>>

-----------------------------------------------------------------------------
(* Properties of hub_tag_color (RegSpec) *)

\* C22: the k-th distinct address resolved, counting from 0, has the tag
\* chr(ord('A') + k mod 26) and the color slot k mod the palette size, for
\* as long as the program runs, however often it is resolved again; the hub
\* counter is the number of records, and the call returns the record.
C22_TagAndColorBySlot ==
    pc = "resolve" =>
        /\ hub_counter = Cardinality(DOMAIN hub_registry)
        /\ \A k \in 0..(MaxHubs - 1) :
              IF k < hub_counter
              THEN /\ NthAddr(k) \in DOMAIN hub_registry
                   /\ hub_registry[NthAddr(k)].tag = Chr(65 + (k % 26))
                   /\ hub_registry[NthAddr(k)].color = k % NumColors
              ELSE NthAddr(k) \notin DOMAIN hub_registry
        /\ (~IsNone(ret) => ret.value = hub_registry[ret.addr])

\* C22 witness: the 27th address has been resolved and has the first
\* address's letter with another color slot, and the first address has just
\* been resolved again.
C22_Witness ==
    /\ pc = "resolve"
    /\ hub_counter = 27
    /\ hub_registry[NthAddr(26)].tag = "A"
    /\ hub_registry[NthAddr(26)].color = 6
    /\ hub_registry[NthAddr(0)].tag = "A"
    /\ hub_registry[NthAddr(0)].color = 0
    /\ ~IsNone(ret) /\ ret.addr = NthAddr(0)

-----------------------------------------------------------------------------
(* Name capture from primary advertisements (Spec) *)

\* The pass of the body that creates the record of Item's address, for a
\* primary advertisement that carries a local name.
FirstNamedPacket ==
    /\ BodyStep
    /\ Item.adv_type # ADV_SCAN_RSP
    /\ Truthy(find_local_name(Item.payload))
    /\ Item.addr \notin DOMAIN hub_registry
    /\ Item.addr \in DOMAIN hub_registry'

\* C23: when the first vendor packet processed from an address carries a
\* local-name record, the record created by that pass holds the name, and
\* the line printed by that pass shows it.
C23_NameOnFirstPacket ==
    [][FirstNamedPacket =>
         /\ hub_registry'[Item.addr].name = find_local_name(Item.payload)
         /\ (~IsNone(line') =>
               Val(line').name = Val(find_local_name(Item.payload)))]_vars

-----------------------------------------------------------------------------
(* The counters (Spec) *)

\* drops = _queue_count[0] - _processed_count[0]
Drops == queue_count - processed_count

\* The main thread is where the heartbeat or the final statistics read the
\* counters.
ReportsDrops == pc \in {"tail", "done"}

\* C24: the drop figure of the heartbeat and of the final statistics is the
\* number of captures discarded by queue overflow; it is positive only if a
\* capture was discarded.
C24_DropsAreDiscards ==
    ReportsDrops =>
        /\ Drops = discarded
        /\ (Drops > 0 => discarded > 0)

-----------------------------------------------------------------------------
(* Order of processing (Spec) *)

\* The counter value in a capture of AirCounter, and in a printed text.
CounterIn(item) == At(item.payload, 6)
CounterOf(text) == CHOOSE n \in 1..MaxEvents : NatStr(n) = text

\* The captures of the counter came in without a step back.
CounterInOrder ==
    /\ air = AirCounter
    /\ \A i \in 1..(Len(enqueued) - 1) :
          CounterIn(enqueued[i]) <= CounterIn(enqueued[i + 1])

CounterKey == dedup_key(addr_str(AddrA), 5)

\* C25: process_queue takes the captures in the order they were enqueued
\* (each popleft takes the oldest capture that was neither taken nor
\* discarded before) and leaves its loop only when the queue is empty; and
\* when the captures of a counter came in in order, each value printed for
\* its address and channel is greater than the one printed before.
C25_CaptureOrder ==
    /\ [][(pc = "pop" /\ pc' = "body") =>
             /\ cur' = Some(enqueued[discarded + processed_count])
             /\ queue' = SubSeq(enqueued, discarded + processed_count + 1,
                                Len(enqueued))]_vars
    /\ [][(pc = "loop" /\ pc' = "tail") => queue = <<>>]_vars
    /\ [][(BodyStep /\ CounterInOrder /\ ~IsNone(line')
              /\ CounterKey \in DOMAIN last_value) =>
             /\ Val(line').decoded = NatStr(CounterIn(Item))
             /\ CounterOf(last_value[CounterKey]) < CounterIn(Item)]_vars

\* C25 witness: three values of the counter were captured in order, the first
\* was discarded by overflow before it was processed, and the other two
\* have been printed, the third after the second.
C25_Witness ==
    /\ air = AirCounter
    /\ AfterBody
    /\ Len(enqueued) = 3
    /\ CounterIn(enqueued[1]) = 1
    /\ CounterIn(enqueued[2]) = 2
    /\ CounterIn(enqueued[3]) = 3
    /\ discarded = 1
    /\ print_count = 2
    /\ ~IsNone(line) /\ Val(line).decoded = "3"

-----------------------------------------------------------------------------
(* Properties of decode_value (FnSpec) *)

\* C26: a value behind any number of single-object headers decodes to what
\* the value alone decodes to, value and bytes consumed (and raises where
\* the value alone raises); if the data ends after the headers, the result
\* is None with 0 bytes consumed.
C26_WrappersAreTransparent ==
    Returned("decode_value") =>
        /\ ret.value = decode_value(probe.value, 0)
        /\ (probe.value = <<>> => ret.value = Ret(None, 0))

\* C26 witness: three headers or more, of both kinds, in front of an int8,
\* which decodes to 42 with one byte consumed.
C26_Witness ==
    /\ Returned("decode_value")
    /\ Len(probe.wraps) >= 3
    /\ probe.wraps[1] = 0
    /\ probe.wraps[2] = 31
    /\ probe.value = Int8_42
    /\ ret.value = Ret(Some([t |-> "int", n |-> 42]), 1)

\* How far the processed count is ahead of the captures taken from the queue.
Ahead == processed_count + Len(queue) + discarded - queue_count

CountersOrdered ==
    /\ irq_count >= queue_count
    /\ queue_count >= processed_count
    /\ processed_count >= print_count
    /\ last_irq_count <= irq_count

NoCounterDecreases ==
    /\ irq_count' >= irq_count
    /\ queue_count' >= queue_count
    /\ processed_count' >= processed_count
    /\ print_count' >= print_count

====
